---- MODULE Spec2Model ----
(***************************************************************************)
(* Model of the cipher_tools crate: the PKCS#7 padding strategy            *)
(* (src/src/padding/pkcs7.rs), the columnar transposition cipher           *)
(* (src/src/cipher/transposition_cipher.rs) and the substitution cipher    *)
(* (src/src/cipher/substitution_cipher.rs).                                *)
(*                                                                         *)
(* Every operation of the crate is a pure function of its arguments, so    *)
(* the state is the last call made: which operation, its arguments and     *)
(* the value it returned.  A call either takes fresh arguments or is fed   *)
(* the output of the preceding call (encrypt then decrypt, pad then        *)
(* strip), which is how src/src/main.rs chains them.                       *)
(*                                                                         *)
(* Byte slices are sequences of numbers in 0..255.  The code indexes from  *)
(* 0; At(s, i) reads the element the code writes s[i].                     *)
(***************************************************************************)
EXTENDS Integers, Sequences, FiniteSets, TLC

VARIABLES op, data, key, blk, res, orig, chained

vars == <<op, data, key, blk, res, orig, chained>>

(***************************************************************************)
(* Bounds of the model.                                                    *)
(***************************************************************************)
MaxDataLen == 3
MaxKeyLen == 3
MaxBlock == 4
MaxTextLen == 2

(***************************************************************************)
(* Program constants.                                                      *)
(***************************************************************************)
U8_MAX == 255

(***************************************************************************)
(* Integer casts.                                                          *)
(***************************************************************************)
\* `x as u8`: the low 8 bits.
AsU8(n) == n % 256

\* `x as u32`: the low 32 bits, as the low 16 bits plus 2^16 times the next 16.
AsU32(n) == (n % 65536) + 65536 * ((n \div 65536) % 65536)

\* s[i] with the code's 0-based index.
At(s, i) == s[i + 1]

\* .collect() / .to_vec(): the elements of f, a function on 1..n, as a
\* sequence built element by element.
Collect(f) == <<>> \o f

\* s[from .. to] with the code's 0-based, end-exclusive range.
Slice(s, from, to) == SubSeq(s, from + 1, to)

\* std::iter::repeat(v).take(n), and vec![v; n]
Repeat(v, n) == Collect([i \in 1..n |-> v])

(***************************************************************************)
(* Results: Ok(value), Err(error), or a panic (index out of range,         *)
(* arithmetic overflow).                                                   *)
(***************************************************************************)
\* An error is <<variant, message, number carried, wrapped padding variant>>;
\* a result is <<kind, value, error>>.
NoError == <<"None", "", 0, "None">>

Ok(v) == <<"Ok", v, NoError>>

Err(e) == <<"Err", <<>>, e>>

Panic == <<"Panic", <<>>, NoError>>

Kind(r) == r[1]

Val(r) == r[2]

ErrOf(r) == r[3]

IsOk(r) == Kind(r) = "Ok"

\* PaddingValidationError::ParameterError(msg)
ParameterError(m) == <<"ParameterError", m, 0, "None">>

\* PaddingValidationError::PaddingError(msg); the number is the value
\* formatted into the message ("Found: {}"), 0 when the message has none.
PaddingError(m, found) == <<"PaddingError", m, found, "None">>

\* CipherOperationError::InvalidKeySize(n)
InvalidKeySize(size) == <<"InvalidKeySize", "", size, "None">>

\* CipherOperationError::InvalidEncryptedMessageLength
InvalidEncryptedMessageLength == <<"InvalidEncryptedMessageLength", "", 0, "None">>

\* CipherOperationError::PaddingValidationError(e): wraps the padding error e.
PaddingValidationError(e) == <<"PaddingValidationError", e[2], e[3], e[1]>>

\* A padding error passed on as it is, without the wrapper.
MapPaddingErr_Unwrapped(r) == r

\* .map_err(CipherOperationError::PaddingValidationError)
MapPaddingErr(r) == IF Kind(r) = "Err" THEN Err(PaddingValidationError(ErrOf(r))) ELSE r

\* for i in lo..hi { acc = Body(acc, i) }: the iterations run in the loop's
\* order.  The range is split in halves, and the first half is evaluated
\* (left = left) before the second half starts from its value, which keeps
\* the evaluation of a long loop shallow.
RECURSIVE ForRange(_, _, _, _)
ForRange(Body(_, _), acc, lo, hi) ==
    IF hi <= lo THEN acc
    ELSE IF hi = lo + 1 THEN Body(acc, lo)
    ELSE LET mid == lo + ((hi - lo) \div 2)
             left == ForRange(Body, acc, lo, mid)
         IN  IF left = left THEN ForRange(Body, left, mid, hi) ELSE acc

(***************************************************************************)
(* Pkcs7Padding                                                            *)
(***************************************************************************)
MsgDataEmpty == "Data must not be empty"
MsgBlockSize == "Block size must be greater than 0 and smaller than 256"
MsgNotMultiple == "Data length must be a multiple of block size"
MsgPaddingRange == "Padding value must be greater than 0 and not greater than block size. Found: {}"
MsgPaddingContent == "Padding content is invalid"

\* apply_padding with a padding value of 0 for data that is already aligned.
apply_padding_NoFullBlock(d, block_size) ==
    IF d = <<>> THEN Err(ParameterError(MsgDataEmpty))
    ELSE IF block_size = 0 \/ block_size > U8_MAX THEN Err(ParameterError(MsgBlockSize))
    ELSE LET padding_value == AsU8((block_size - (AsU32(Len(d)) % block_size)) % block_size)
         IN  Ok(d \o Repeat(padding_value, padding_value))

apply_padding(d, block_size) ==
    IF d = <<>> THEN Err(ParameterError(MsgDataEmpty))
    ELSE IF block_size = 0 \/ block_size > U8_MAX THEN Err(ParameterError(MsgBlockSize))
    ELSE LET padding_value == AsU8(block_size - (AsU32(Len(d)) % block_size))
         IN  Ok(d \o Repeat(padding_value, padding_value))

\* validate_padding that checks the range of the last byte and nothing else.
validate_padding_RangeOnly(d, block_size) ==
    IF Len(d) = 0 THEN Panic
    ELSE LET padding_value == At(d, Len(d) - 1)
         IN  IF padding_value = 0 \/ padding_value > block_size
             THEN Err(PaddingError(MsgPaddingRange, padding_value))
             ELSE Ok(<<>>)

\* block_size is a u8 here.  data[data.len() - 1] panics on an empty slice,
\* and data.len() - padding_value panics when it would go below zero.
validate_padding(d, block_size) ==
    IF Len(d) = 0 THEN Panic
    ELSE LET padding_value == At(d, Len(d) - 1)
         IN  IF padding_value = 0 \/ padding_value > block_size
             THEN Err(PaddingError(MsgPaddingRange, padding_value))
             ELSE IF Len(d) - padding_value < 0 THEN Panic
             ELSE LET padding_start == Len(d) - padding_value
                  IN  IF \A i \in padding_start..(Len(d) - 1) : At(d, i) = padding_value
                      THEN Ok(<<>>)
                      ELSE Err(PaddingError(MsgPaddingContent, 0))

\* strip_padding that removes a whole block instead of padding_value bytes.
strip_padding_WholeBlock(d, block_size) ==
    IF d = <<>> THEN Err(ParameterError(MsgDataEmpty))
    ELSE IF block_size = 0 \/ block_size > U8_MAX THEN Err(ParameterError(MsgBlockSize))
    ELSE IF Len(d) % block_size # 0 THEN Err(ParameterError(MsgNotMultiple))
    ELSE LET v == validate_padding(d, AsU8(block_size))
         IN  IF ~IsOk(v) THEN v
             ELSE Ok(Slice(d, 0, Len(d) - block_size))

\* strip_padding that validates the padding before it checks the length.
strip_padding_ValidateFirst(d, block_size) ==
    IF d = <<>> THEN Err(ParameterError(MsgDataEmpty))
    ELSE IF block_size = 0 \/ block_size > U8_MAX THEN Err(ParameterError(MsgBlockSize))
    ELSE LET v == validate_padding(d, AsU8(block_size))
         IN  IF ~IsOk(v) THEN v
             ELSE IF Len(d) % block_size # 0 THEN Err(ParameterError(MsgNotMultiple))
             ELSE Ok(Slice(d, 0, Len(d) - At(d, Len(d) - 1)))

\* strip_padding without the check for empty data.
strip_padding_NoEmptyCheck(d, block_size) ==
    IF block_size = 0 \/ block_size > U8_MAX THEN Err(ParameterError(MsgBlockSize))
    ELSE IF Len(d) % block_size # 0 THEN Err(ParameterError(MsgNotMultiple))
    ELSE LET v == validate_padding(d, AsU8(block_size))
         IN  IF ~IsOk(v) THEN v
             ELSE LET padding_value == At(d, Len(d) - 1)
                  IN  IF Len(d) - padding_value < 0 THEN Panic
                      ELSE Ok(Slice(d, 0, Len(d) - padding_value))

strip_padding(d, block_size) ==
    IF d = <<>> THEN Err(ParameterError(MsgDataEmpty))
    ELSE IF block_size = 0 \/ block_size > U8_MAX THEN Err(ParameterError(MsgBlockSize))
    ELSE IF Len(d) % block_size # 0 THEN Err(ParameterError(MsgNotMultiple))
    ELSE LET v == validate_padding(d, AsU8(block_size))
         IN  IF ~IsOk(v) THEN v
             ELSE LET padding_value == At(d, Len(d) - 1)
                  IN  IF Len(d) - padding_value < 0 THEN Panic
                      ELSE Ok(Slice(d, 0, Len(d) - padding_value))

(***************************************************************************)
(* TranspositionCipher                                                     *)
(***************************************************************************)
\* matrix.into_iter().flatten(), and the collect() of a flat_map
Flatten(rows) == ForRange(LAMBDA acc, i : acc \o At(rows, i), <<>>, 0, Len(rows))

\* data.chunks(column_size): each chunk copied into a zeroed row.
create_transposition_matrix(d, column_size) ==
    LET num_rows == (Len(d) + column_size - 1) \div column_size
    IN  Collect([r \in 1..num_rows |->
            Collect([c \in 1..column_size |->
                IF (r - 1) * column_size + c <= Len(d)
                THEN d[(r - 1) * column_size + c]
                ELSE 0])])

\* The step of a sort that is not stable: index i goes before the indices
\* with an equal key byte.
SortedInsert_Unstable(sorted, k, i) ==
    LET pos == Cardinality({p \in 1..Len(sorted) : At(k, sorted[p]) < At(k, i)})
    IN  SubSeq(sorted, 1, pos) \o <<i>> \o SubSeq(sorted, pos + 1, Len(sorted))

\* One step of the stable sort: index i, which follows every index of
\* `sorted` in the key, goes after the indices whose key byte is not greater.
SortedInsert(sorted, k, i) ==
    LET pos == Cardinality({p \in 1..Len(sorted) : At(k, sorted[p]) <= At(k, i)})
    IN  SubSeq(sorted, 1, pos) \o <<i>> \o SubSeq(sorted, pos + 1, Len(sorted))

SortByKey(k, n) == ForRange(LAMBDA sorted, i : SortedInsert(sorted, k, i), <<>>, 0, n)

\* The 0-based indices of the key, sorted by key byte (sort_by_key is stable).
get_sorted_key_indices(k) == SortByKey(k, Len(k))

\* matrix.iter().map(move |row| row[index])
Column(matrix, index) == Collect([r \in 1..Len(matrix) |-> At(matrix[r], index)])

\* sorted_key_indices.iter().flat_map(|&index| column of index).collect()
ReadColumns(matrix, sorted_key_indices) ==
    Flatten(Collect([j \in 1..Len(sorted_key_indices) |->
                        Column(matrix, sorted_key_indices[j])]))

\* encrypt that pads before it looks at the key.
TranspositionCipher_encrypt_PadFirst(plaintext, k) ==
    LET padded_data == MapPaddingErr(apply_padding(plaintext, AsU32(Len(k))))
    IN  IF ~IsOk(padded_data) THEN padded_data
        ELSE IF k = <<>> THEN Err(InvalidKeySize(0))
        ELSE Ok(ReadColumns(create_transposition_matrix(Val(padded_data), Len(k)),
                            get_sorted_key_indices(k)))

TranspositionCipher_encrypt(plaintext, k) ==
    IF k = <<>> THEN Err(InvalidKeySize(0))
    ELSE LET padded_data == MapPaddingErr(apply_padding(plaintext, AsU32(Len(k))))
         IN  IF ~IsOk(padded_data) THEN padded_data
             ELSE LET matrix == create_transposition_matrix(Val(padded_data), Len(k))
                      sorted_key_indices == get_sorted_key_indices(k)
                  IN  Ok(ReadColumns(matrix, sorted_key_indices))

\* The fill loops with the columns taken left to right, not in sorted order.
FillMatrix_Unsorted(zeroed, encrypted_message, sorted_key_indices, num_rows) ==
    ForRange(LAMBDA matrix, index :
                 [matrix EXCEPT ![(index % num_rows) + 1][(index \div num_rows) + 1] =
                                    At(encrypted_message, index)],
             zeroed, 0, Len(sorted_key_indices) * num_rows)

\* The fill loops of decrypt.  `index` counts the bytes consumed: the outer
\* loop is at position index / num_rows of the sorted order, the inner at
\* row index % num_rows.
FillMatrix(zeroed, encrypted_message, sorted_key_indices, num_rows) ==
    ForRange(LAMBDA matrix, index :
                 LET col_index == At(sorted_key_indices, index \div num_rows)
                     row == index % num_rows
                 IN  [matrix EXCEPT ![row + 1][col_index + 1] = At(encrypted_message, index)],
             zeroed, 0, Len(sorted_key_indices) * num_rows)

\* The accesses of the fill loops: <<index, row, col_index>> for every
\* matrix[row][col_index] = encrypted_message[index] they execute.
FillAccesses(sorted_key_indices, num_rows) ==
    {<<index, index % num_rows, At(sorted_key_indices, index \div num_rows)>> :
        index \in 0..(Len(sorted_key_indices) * num_rows - 1)}

\* decrypt without the check of the message length.
TranspositionCipher_decrypt_NoLengthCheck(encrypted_message, k) ==
    IF k = <<>> THEN Err(InvalidKeySize(0))
    ELSE LET key_length == Len(k)
             num_rows == Len(encrypted_message) \div key_length
             zeroed == Repeat(Repeat(0, key_length), num_rows)
             sorted_key_indices == get_sorted_key_indices(k)
             matrix == FillMatrix(zeroed, encrypted_message, sorted_key_indices, num_rows)
         IN  MapPaddingErr(strip_padding(Flatten(matrix), AsU32(key_length)))

TranspositionCipher_decrypt(encrypted_message, k) ==
    IF k = <<>> THEN Err(InvalidKeySize(0))
    ELSE LET key_length == Len(k)
         IN  IF Len(encrypted_message) % key_length # 0
             THEN Err(InvalidEncryptedMessageLength)
             ELSE LET num_rows == Len(encrypted_message) \div key_length
                      zeroed == Repeat(Repeat(0, key_length), num_rows)
                      sorted_key_indices == get_sorted_key_indices(k)
                      matrix == FillMatrix(zeroed, encrypted_message,
                                           sorted_key_indices, num_rows)
                      flattened == Flatten(matrix)
                  IN  MapPaddingErr(strip_padding(flattened, AsU32(key_length)))

\* EncryptionAlgorithm::ensure_valid_key
ensure_valid_key(k) == IF k = <<>> THEN Err(InvalidKeySize(0)) ELSE Ok(<<>>)

(***************************************************************************)
(* SubstitutionCipher                                                      *)
(***************************************************************************)
\* (b'A'..=b'Z').chain(b'a'..=b'z').chain(b'0'..=b'9')
alphabet ==
    [i \in 1..26 |-> 64 + i] \o [i \in 1..26 |-> 96 + i] \o [i \in 1..10 |-> 47 + i]

\* s.iter().position(|&x| x == ch): the first 0-based index, -1 for None.
Position(s, ch) ==
    IF \E i \in 1..Len(s) : s[i] = ch
    THEN (CHOOSE i \in 1..Len(s) : s[i] = ch /\ \A j \in 1..(i - 1) : s[j] # ch) - 1
    ELSE -1

substitute(text, k) ==
    Collect([n \in 1..Len(text) |->
        LET position == Position(alphabet, text[n])
        IN  IF position >= 0 THEN At(k, position) ELSE text[n]])

SubstitutionCipher_encrypt(plain, k) ==
    IF Len(k) # Len(alphabet) THEN Err(InvalidKeySize(Len(k)))
    ELSE Ok(substitute(plain, k))

\* The loop with the two sides of the assignment exchanged: the key copied, not inverted.
BuildReverseKey_NotInverted(zeroed, k) ==
    ForRange(LAMBDA reverse_key, i :
                 LET position == Position(alphabet, At(k, i))
                 IN  IF position >= 0
                     THEN [reverse_key EXCEPT ![i + 1] = At(alphabet, position)]
                     ELSE reverse_key,
             zeroed, 0, Len(k))

\* for (i, &byte) in key.iter().enumerate(): the loop building reverse_key.
BuildReverseKey(zeroed, k) ==
    ForRange(LAMBDA reverse_key, i :
                 LET position == Position(alphabet, At(k, i))
                 IN  IF position >= 0
                     THEN [reverse_key EXCEPT ![position + 1] = At(alphabet, i)]
                     ELSE reverse_key,
             zeroed, 0, Len(k))

\* decrypt reporting the expected key size instead of the actual one.
SubstitutionCipher_decrypt_ExpectedSize(encrypted, k) ==
    IF Len(k) # Len(alphabet) THEN Err(InvalidKeySize(Len(alphabet)))
    ELSE Ok(substitute(encrypted, BuildReverseKey(Repeat(0, Len(k)), k)))

SubstitutionCipher_decrypt(encrypted, k) ==
    IF Len(k) # Len(alphabet) THEN Err(InvalidKeySize(Len(k)))
    ELSE LET reverse_key == BuildReverseKey(Repeat(0, Len(k)), k)
         IN  Ok(substitute(encrypted, reverse_key))

(***************************************************************************)
(* Inputs.                                                                 *)
(***************************************************************************)
SeqsUpTo(S, n) == UNION {[1..m -> S] : m \in 0..n}

\* Byte values of the short inputs: 0, the small padding values, and 255.
Bytes == {0, 1, 2, 3, U8_MAX}

KeyBytes == {1, 2, 3}

Datas == SeqsUpTo(Bytes, MaxDataLen)

\* The padding calls also get data one byte longer.
PadDatas == SeqsUpTo(Bytes, MaxDataLen + 1)

ShortKeys == SeqsUpTo(KeyBytes, MaxKeyLen)

\* Keys at the limit of the block length: 255 and 256 bytes with repeated
\* values, 255 distinct bytes ascending and descending.
LongKey(n) == Collect([i \in 1..n |-> (i * 7) % 5])

LongKeys ==
    {LongKey(U8_MAX), LongKey(U8_MAX + 1),
     Collect([i \in 1..U8_MAX |-> i - 1]), Collect([i \in 1..U8_MAX |-> U8_MAX - i])}

\* The inputs tried with the long keys: plaintexts that pad to one row and to
\* two, and 256 bytes, a whole row for the key of 256 bytes.
LongKeyDatas ==
    {<<>>, <<1>>, <<3, 0, U8_MAX>>, Collect([i \in 1..U8_MAX |-> i % 4]),
     Repeat(1, U8_MAX + 1)}

\* block_length is a u32.
BlockSizes == (0..MaxBlock) \cup {U8_MAX - 1, U8_MAX, U8_MAX + 1, 2 * U8_MAX}

\* Whole blocks of 255 bytes: a full block of padding, the same with one
\* byte of it damaged, and with a last byte of 0.
LongDatas ==
    {Repeat(U8_MAX, U8_MAX),
     [Repeat(U8_MAX, U8_MAX) EXCEPT ![1] = 0],
     [Repeat(U8_MAX, U8_MAX) EXCEPT ![U8_MAX] = 0],
     Repeat(1, U8_MAX) \o Repeat(U8_MAX, U8_MAX)}

\* Substitution inputs: bytes of the three alphabet ranges, a space and 0;
\* every single byte as a one-byte text.
TextBytes == {0, 32, 48, 57, 65, 122}

Texts == SeqsUpTo(TextBytes, MaxTextLen) \cup {<<b>> : b \in 0..U8_MAX}

Rotated(s, r) == Collect([i \in 1..Len(s) |-> s[((i - 1 + r) % Len(s)) + 1]])

Reversed(s) == Collect([i \in 1..Len(s) |-> s[Len(s) + 1 - i]])

PermutationKeys ==
    {Rotated(alphabet, r) : r \in {0, 1, 13, 26, 61}}
        \cup {Reversed(alphabet), Rotated(Reversed(alphabet), 5),
              [alphabet EXCEPT ![1] = alphabet[62], ![62] = alphabet[1]]}

\* 62 bytes that are no permutation: repeated, foreign, or both.
NonPermutationKeys ==
    {Repeat(65, 62), Repeat(32, 62), [alphabet EXCEPT ![2] = 65],
     [alphabet EXCEPT ![62] = 33], Collect([i \in 1..62 |-> i])}

\* Keys of another length; the 26-letter key of src/src/main.rs among them.
WrongLengthKeys ==
    {<<>>, <<65>>, SubSeq(alphabet, 1, 61), alphabet \o <<33>>,
     SubSeq(alphabet, 27, 52), alphabet \o alphabet}

SubKeys == PermutationKeys \cup NonPermutationKeys \cup WrongLengthKeys

(***************************************************************************)
(* The state machine.                                                      *)
(***************************************************************************)
\* The arguments of the next call are drawn at the start; op = "init" until
\* the call is made.
PaddingInit ==
    /\ op = "init"
    /\ data \in PadDatas \cup LongDatas
    /\ blk \in BlockSizes
    /\ key = <<>>
    /\ res = Ok(<<>>)
    /\ orig = <<>>
    /\ chained = FALSE

TranspositionInit ==
    /\ op = "init"
    /\ \/ data \in Datas /\ key \in ShortKeys
       \/ data \in LongKeyDatas /\ key \in LongKeys
    /\ blk = 0
    /\ res = Ok(<<>>)
    /\ orig = <<>>
    /\ chained = FALSE

SubstitutionInit ==
    /\ op = "init"
    /\ data \in Texts
    /\ key \in SubKeys
    /\ blk = 0
    /\ res = Ok(<<>>)
    /\ orig = <<>>
    /\ chained = FALSE

Init == PaddingInit \/ TranspositionInit \/ SubstitutionInit

ApplyPadding ==
    /\ op = "init"
    /\ op' = "apply_padding"
    /\ res' = apply_padding(data, blk)
    /\ UNCHANGED <<data, key, blk, orig, chained>>

StripPadding ==
    /\ op = "init"
    /\ op' = "strip_padding"
    /\ res' = strip_padding(data, blk)
    /\ UNCHANGED <<data, key, blk, orig, chained>>

\* strip_padding(apply_padding(data, b), b)
StripPadded ==
    /\ op = "apply_padding"
    /\ IsOk(res)
    /\ op' = "strip_padding"
    /\ data' = Val(res)
    /\ res' = strip_padding(Val(res), blk)
    /\ orig' = data
    /\ chained' = TRUE
    /\ UNCHANGED <<key, blk>>

Encrypt ==
    /\ op = "init"
    /\ op' = "transposition_encrypt"
    /\ res' = TranspositionCipher_encrypt(data, key)
    /\ UNCHANGED <<data, key, blk, orig, chained>>

Decrypt ==
    /\ op = "init"
    /\ op' = "transposition_decrypt"
    /\ res' = TranspositionCipher_decrypt(data, key)
    /\ UNCHANGED <<data, key, blk, orig, chained>>

\* decrypt(encrypt(P, K), K), as encrypt_decrypt_message does
DecryptEncrypted ==
    /\ op = "transposition_encrypt"
    /\ IsOk(res)
    /\ op' = "transposition_decrypt"
    /\ data' = Val(res)
    /\ res' = TranspositionCipher_decrypt(Val(res), key)
    /\ orig' = data
    /\ chained' = TRUE
    /\ UNCHANGED <<key, blk>>

SubEncrypt ==
    /\ op = "init"
    /\ op' = "substitution_encrypt"
    /\ res' = SubstitutionCipher_encrypt(data, key)
    /\ UNCHANGED <<data, key, blk, orig, chained>>

SubDecrypt ==
    /\ op = "init"
    /\ op' = "substitution_decrypt"
    /\ res' = SubstitutionCipher_decrypt(data, key)
    /\ UNCHANGED <<data, key, blk, orig, chained>>

\* decrypt(encrypt(P, K), K), as encrypt_and_decrypted_with_subtitution_cipher does
SubDecryptEncrypted ==
    /\ op = "substitution_encrypt"
    /\ IsOk(res)
    /\ op' = "substitution_decrypt"
    /\ data' = Val(res)
    /\ res' = SubstitutionCipher_decrypt(Val(res), key)
    /\ orig' = data
    /\ chained' = TRUE
    /\ UNCHANGED <<key, blk>>

PaddingNext == ApplyPadding \/ StripPadding \/ StripPadded

TranspositionNext == Encrypt \/ Decrypt \/ DecryptEncrypted

SubstitutionNext == SubEncrypt \/ SubDecrypt \/ SubDecryptEncrypted

Next == PaddingNext \/ TranspositionNext \/ SubstitutionNext

Spec == Init /\ [][Next]_vars

PaddingSpec == PaddingInit /\ [][PaddingNext]_vars

TranspositionSpec == TranspositionInit /\ [][TranspositionNext]_vars

SubstitutionSpec == SubstitutionInit /\ [][SubstitutionNext]_vars

\* The transposition cipher together with the padding strategy it calls.
PaddedCipherInit == PaddingInit \/ TranspositionInit

PaddedCipherNext == PaddingNext \/ TranspositionNext

PaddedCipherSpec == PaddedCipherInit /\ [][PaddedCipherNext]_vars

(***************************************************************************)
(* Properties.                                                             *)
(***************************************************************************)
ErrTag(r) == ErrOf(r)[1]

\* The padding variant a PaddingValidationError wraps.
WrappedTag(r) == ErrOf(r)[4]

IsErr(r, tag) == Kind(r) = "Err" /\ ErrTag(r) = tag

Last(s) == s[Len(s)]

AlphabetSet == {alphabet[i] : i \in 1..Len(alphabet)}

IsPermutationOfAlphabet(k) ==
    /\ Len(k) = Len(alphabet)
    /\ {k[i] : i \in 1..Len(k)} = AlphabetSet

\* C1 as written: for every non-empty plaintext and every non-empty key,
\* whatever its length, encrypt succeeds and decrypt of its ciphertext under
\* the same key returns the plaintext.
C1_RoundTripAnyKey ==
    /\ (op = "transposition_encrypt" /\ data # <<>> /\ key # <<>>) => IsOk(res)
    /\ (op = "transposition_decrypt" /\ chained /\ orig # <<>> /\ key # <<>>)
           => res = Ok(orig)

\* C1 amended: for every non-empty plaintext and every non-empty key of at
\* most 255 bytes (repeated byte values included), encrypt succeeds and
\* decrypt of its ciphertext under the same key returns Ok(plaintext).
C1_RoundTrip ==
    /\ (op = "transposition_encrypt" /\ data # <<>> /\ Len(key) \in 1..U8_MAX)
           => IsOk(res)
    /\ (op = "transposition_decrypt" /\ chained /\ orig # <<>> /\ Len(key) \in 1..U8_MAX)
           => res = Ok(orig)

\* A ciphertext made with a key that repeats a byte was decrypted to the plaintext.
C1_Witness ==
    /\ op = "transposition_decrypt"
    /\ chained
    /\ Len(orig) >= 2
    /\ Len(key) >= 3
    /\ key[1] = key[3]
    /\ key[2] < key[1]
    /\ data # orig \o Repeat(Len(data) - Len(orig), Len(data) - Len(orig))
    /\ res = Ok(orig)

\* C2: for non-empty data and a block length in 1..255, apply_padding
\* returns the data followed by N bytes of value N, where
\* N = block_length - (len mod block_length) lies in 1..block_length (a full
\* block when the data is aligned), and the result is a whole number of blocks.
C2_ApplyPadding ==
    (op = "apply_padding" /\ data # <<>> /\ blk \in 1..U8_MAX) =>
        LET N == blk - (Len(data) % blk)
        IN  /\ IsOk(res)
            /\ N \in 1..blk
            /\ Len(Val(res)) = Len(data) + N
            /\ SubSeq(Val(res), 1, Len(data)) = data
            /\ \A i \in (Len(data) + 1)..Len(Val(res)) : Val(res)[i] = N
            /\ Len(Val(res)) % blk = 0

\* Aligned data got a full block of padding.
C2_Witness ==
    /\ op = "apply_padding"
    /\ blk >= 2
    /\ Len(data) = blk
    /\ IsOk(res)
    /\ Len(Val(res)) = 2 * blk
    /\ Last(Val(res)) = blk

\* C3: strip_padding(apply_padding(data, b), b) returns Ok(data) for
\* non-empty data and b in 1..255; and whenever strip_padding succeeds on d
\* it returns d without its last p bytes, p being the last byte of d.
C3_StripInvertsApply ==
    /\ (op = "strip_padding" /\ chained /\ orig # <<>> /\ blk \in 1..U8_MAX)
           => res = Ok(orig)
    /\ (op = "strip_padding" /\ IsOk(res))
           => /\ data # <<>>
              /\ Last(data) <= Len(data)
              /\ Val(res) = SubSeq(data, 1, Len(data) - Last(data))

\* Padded data that ends in bytes of its own, equal to the padding value,
\* was stripped back to the data.
C3_Witness ==
    /\ op = "strip_padding"
    /\ chained
    /\ orig # <<>>
    /\ Last(orig) = Last(data)
    /\ res = Ok(orig)

\* C4: on non-empty data whose length is a multiple of the block size
\* (1..255), strip_padding fails with PaddingError when the last byte p is 0,
\* exceeds the block size, or the last p bytes are not all p; in every other
\* such case it succeeds.
C4_PaddingRejection ==
    (op = "strip_padding" /\ data # <<>> /\ blk \in 1..U8_MAX /\ Len(data) % blk = 0) =>
        LET p == Last(data)
            bad == \/ p = 0
                   \/ p > blk
                   \/ \E i \in (Len(data) - p + 1)..Len(data) : data[i] # p
        IN  IF bad THEN IsErr(res, "PaddingError") ELSE IsOk(res)

\* A last byte in range whose run is broken was rejected.
C4_Witness ==
    /\ op = "strip_padding"
    /\ data # <<>>
    /\ blk \in 1..U8_MAX
    /\ Len(data) % blk = 0
    /\ Last(data) \in 2..blk
    /\ res = Err(PaddingError(MsgPaddingContent, 0))

\* C5: apply_padding and strip_padding fail with ParameterError on empty
\* data, a block length of 0 or one above 255; strip_padding also when the
\* length is no multiple of the block length; the padding bytes are not looked
\* at before (ParameterError, not PaddingError, when both apply).
C5_ParameterValidation ==
    /\ (op \in {"apply_padding", "strip_padding"}
            /\ (data = <<>> \/ blk = 0 \/ blk > U8_MAX))
           => IsErr(res, "ParameterError")
    /\ (op = "strip_padding" /\ data # <<>> /\ blk \in 1..U8_MAX /\ Len(data) % blk # 0)
           => IsErr(res, "ParameterError")

\* Data of a wrong length that also ends in an invalid padding byte got ParameterError.
C5_Witness ==
    /\ op = "strip_padding"
    /\ data # <<>>
    /\ blk \in 1..U8_MAX
    /\ Len(data) % blk # 0
    /\ Last(data) = 0
    /\ res = Err(ParameterError(MsgNotMultiple))

\* C6: with a non-empty key, decrypt of a ciphertext whose length is no
\* multiple of the key length fails with InvalidEncryptedMessageLength.
C6_LengthValidation ==
    (op = "transposition_decrypt" /\ key # <<>> /\ Len(data) % Len(key) # 0)
        => res = Err(InvalidEncryptedMessageLength)

C6_Witness ==
    /\ op = "transposition_decrypt"
    /\ Len(key) = 2
    /\ Len(data) = 3
    /\ Last(data) = 1
    /\ res = Err(InvalidEncryptedMessageLength)

\* C7: with an empty key, encrypt and decrypt fail with InvalidKeySize(0) on
\* every input, the empty one included: the check of the key comes before
\* every other check.  ensure_valid_key gives the same answer.
C7_EmptyKey ==
    (op \in {"transposition_encrypt", "transposition_decrypt"} /\ key = <<>>)
        => /\ res = Err(InvalidKeySize(0))
           /\ res = ensure_valid_key(key)

\* An empty plaintext under an empty key: the key error, not the padding error.
C7_Witness ==
    /\ op = "transposition_encrypt"
    /\ key = <<>>
    /\ data = <<>>
    /\ res = Err(InvalidKeySize(0))

\* C8: with a non-empty key, encrypt fails with
\* PaddingValidationError(ParameterError) when the plaintext is empty or the
\* key is longer than 255 bytes, and succeeds in every other case.
C8_EncryptPaddingError ==
    (op = "transposition_encrypt" /\ key # <<>>) =>
        IF data = <<>> \/ Len(key) > U8_MAX
        THEN IsErr(res, "PaddingValidationError") /\ WrappedTag(res) = "ParameterError"
        ELSE IsOk(res)

\* A non-empty plaintext under a key of 256 bytes was refused.
C8_Witness ==
    /\ op = "transposition_encrypt"
    /\ data # <<>>
    /\ Len(key) = U8_MAX + 1
    /\ res = Err(PaddingValidationError(ParameterError(MsgBlockSize)))

\* C9: for a key that is a permutation of the alphabet, decrypt of the
\* encryption of P returns P; encrypt and decrypt leave every byte outside the
\* alphabet where it is and as it is, and return as many bytes as they got.
C9_SubstitutionRoundTrip ==
    /\ (op = "substitution_decrypt" /\ chained /\ IsPermutationOfAlphabet(key))
           => res = Ok(orig)
    /\ (op \in {"substitution_encrypt", "substitution_decrypt"}
            /\ IsPermutationOfAlphabet(key))
           => /\ IsOk(res)
              /\ Len(Val(res)) = Len(data)
              /\ \A i \in 1..Len(data) :
                     data[i] \notin AlphabetSet => Val(res)[i] = data[i]

\* A text with a letter and a foreign byte came back from a key that moves the letter.
C9_Witness ==
    /\ op = "substitution_decrypt"
    /\ chained
    /\ IsPermutationOfAlphabet(key)
    /\ Len(orig) = 2
    /\ orig[1] \in AlphabetSet
    /\ orig[2] \notin AlphabetSet
    /\ data[1] # orig[1]
    /\ res = Ok(orig)

PaddedPlaintext(d, block) ==
    LET N == block - (Len(d) % block)
    IN  d \o Collect([i \in 1..N |-> N])

\* The number of key bytes that sort before the byte at index i: the smaller
\* ones, and the equal ones at a lower index.
RankInKey(k, i) ==
    Cardinality({m \in 0..(Len(k) - 1) :
                    At(k, m) < At(k, i) \/ (At(k, m) = At(k, i) /\ m < i)})

\* The 0-based indices of k by ascending byte, equal bytes in index order.
StablePerm(k) ==
    LET ranks == Collect([i \in 1..Len(k) |-> RankInKey(k, i - 1)])
    IN  Collect([j \in 1..Len(k) |-> CHOOSE i \in 0..(Len(k) - 1) : ranks[i + 1] = j - 1])

Count(s, b) == Cardinality({i \in 1..Len(s) : s[i] = b})

\* C11: on every successful encrypt, with k the key length, B the padded
\* plaintext, R = len(B) / k and perm the key's indices by ascending byte
\* (equal bytes in index order): perm is a permutation of 0..k-1,
\* ciphertext[j*R + r] = B[r*k + perm[j]] for all j < k and r < R, the
\* ciphertext has the length of B and holds the same bytes as often.
C11_ColumnOrder ==
    (op = "transposition_encrypt" /\ IsOk(res)) =>
        LET k == Len(key)
            B == PaddedPlaintext(data, k)
            R == Len(B) \div k
            perm == StablePerm(key)
            ciphertext == Val(res)
        IN  /\ Len(perm) = k
            /\ {perm[j] : j \in 1..k} = 0..(k - 1)
            /\ Len(ciphertext) = Len(B)
            /\ R * k = Len(B)
            /\ \A j \in 0..(k - 1), r \in 0..(R - 1) :
                   At(ciphertext, j * R + r) = At(B, r * k + At(perm, j))
            /\ \A b \in {B[i] : i \in 1..Len(B)} \cup {ciphertext[i] : i \in 1..Len(ciphertext)} :
                   Count(ciphertext, b) = Count(B, b)

\* Two rows were read under a key whose first and last bytes are equal and
\* greater than the middle one: the columns came out in the order 1, 0, 2.
C11_Witness ==
    /\ op = "transposition_encrypt"
    /\ IsOk(res)
    /\ Len(key) = 3
    /\ key[1] = key[3]
    /\ key[2] < key[1]
    /\ Len(Val(res)) = 6
    /\ data[1] # data[2]
    /\ Val(res) = <<data[2], PaddedPlaintext(data, 3)[5], data[1],
                    PaddedPlaintext(data, 3)[4], data[3], PaddedPlaintext(data, 3)[6]>>

\* C12: decrypt with a non-empty key returns Ok or an error on every
\* ciphertext, never a panic.  An empty ciphertext gives
\* PaddingValidationError(ParameterError).  The fill loops read the bytes
\* 0..len-1 of the ciphertext, each once, into cells of the matrix.
\* validate_padding is reached (strip_padding got past its parameter checks)
\* only on non-empty data at least as long as the block, so that
\* len - p does not go below zero for a padding value p within the block.
C12_IndexSafety ==
    /\ (op = "transposition_decrypt" /\ key # <<>>)
           => /\ Kind(res) \in {"Ok", "Err"}
              /\ data = <<>> => res = Err(PaddingValidationError(ParameterError(MsgDataEmpty)))
              /\ Len(data) % Len(key) = 0 =>
                     LET num_rows == Len(data) \div Len(key)
                         accesses == FillAccesses(get_sorted_key_indices(key), num_rows)
                     IN  /\ {a[1] : a \in accesses} = 0..(Len(data) - 1)
                         /\ Cardinality(accesses) = Len(data)
                         /\ \A a \in accesses :
                                a[2] \in 0..(num_rows - 1) /\ a[3] \in 0..(Len(key) - 1)
              /\ (IsOk(res) \/ (Kind(res) = "Err" /\ WrappedTag(res) = "PaddingError"))
                     => Len(key) <= U8_MAX /\ Len(data) >= Len(key)
    /\ op = "strip_padding"
           => /\ Kind(res) \in {"Ok", "Err"}
              /\ ~IsErr(res, "ParameterError")
                     => /\ data # <<>>
                        /\ Len(data) >= blk
                        /\ Last(data) <= AsU8(blk) => Len(data) - Last(data) >= 0
                        /\ Kind(validate_padding(data, AsU8(blk))) # "Panic"

\* decrypt of the empty ciphertext under a non-empty key was refused by strip_padding.
C12_Witness ==
    /\ op = "transposition_decrypt"
    /\ key # <<>>
    /\ data = <<>>
    /\ res = Err(PaddingValidationError(ParameterError(MsgDataEmpty)))

====
